---- MODULE Spec2Model ----
(***************************************************************************)
(* Model of the item API of src/lambda/lambda_function.py running against  *)
(* the table that src/backend/backend_stack.py declares.                    *)
(*                                                                         *)
(* State: the DynamoDB table "serverless-items", the wall clock read by    *)
(* datetime.utcnow(), the updates that invocations inside update_item have *)
(* prepared but not yet sent, and the last response the function produced. *)
(*  One action per handler; update_item is split at its *)
(* single store call so that other invocations can run between the         *)
(* preparation of the update expression and the write.                     *)
(*                                                                         *)
(* The store is modelled as available: throttling and transient I/O        *)
(* failures are not part of the model.  Strings are modelled as strings,   *)
(* ISO-8601 timestamps (isoformat of utcnow, whose lexicographic order is  *)
(* the chronological one) as natural numbers.                              *)
(*                                                                         *)
(* The handlers are modelled statement by statement.  Separately from the  *)
(* model, line 199 repeats the keyword ExpressionAttributeValues inside    *)
(* one call, which the Python compiler rejects for the whole file; the     *)
(* model follows the handler bodies as written and the call at 194-204     *)
(* fails in the model for the independent reason given at UpdateItem.      *)
(***************************************************************************)
EXTENDS Integers, FiniteSets, Sequences, TLC

\* ---------------------------------------------------------------- bounds
\* Invocations of the function that may be inside update_item at once.
MaxInFlight == 1
\* Last reading of the clock.
MaxTime == 1

Users   == {"u1", "u2"}
ItemIds == {"i1", "i2"}

\* ------------------------------------------------------ request envelope
\* The value of the caller when the envelope has no
\* requestContext.authorizer.claims.sub.
NoClaims == "<no-claims>"
Callers  == Users \cup {NoClaims}

\* JSON values of a request body: strings, an array, null.
JArray == "<array>"
JNull  == "<null>"
NoId   == "-"

EmptyObj == [f \in {} |-> JNull]

\* event['body']: text that json.loads parses to the object obj, or a body
\* that is absent or that json.loads rejects.
Parsed(o) == [parses |-> TRUE, obj |-> o]
NoBody    == [parses |-> FALSE, obj |-> EmptyObj]

\* Bodies of POST /items: valid, description missing, name of a wrong type,
\* not JSON.
CreateBodies ==
  { NoBody,
    Parsed([name |-> "x", description |-> "d"]),
    Parsed([name |-> "x"]),
    Parsed([name |-> JArray, description |-> "d"]) }

\* Bodies of PUT /items/{id}: a name, a name with fields the model class
\* does not declare, only such fields, a name of a wrong type, not JSON.
UpdateBodies ==
  { NoBody,
    Parsed([name |-> "x"]),
    Parsed([name |-> "x", user_id |-> "u2", id |-> "i2"]),
    Parsed([user_id |-> "u2", id |-> "i2"]),
    Parsed([name |-> JArray]) }

\* ------------------------------------------------------------ validation
IsStr(v) == v \notin {JArray, JNull}

RECOGNIZED == {"name", "description"}

\* ItemCreate(**request_body): both fields required, each a str; other
\* fields of the body are ignored.
ItemCreate(o) ==
  IF RECOGNIZED \subseteq DOMAIN o /\ \A f \in RECOGNIZED : IsStr(o[f])
  THEN [ok |-> TRUE,  data |-> [f \in RECOGNIZED |-> o[f]]]
  ELSE [ok |-> FALSE, data |-> EmptyObj]

\* A model class that keeps every field of the body.
ItemUpdateKeepsAll(o) ==
  IF \A f \in DOMAIN o \cap RECOGNIZED : o[f] # JArray
  THEN [ok |-> TRUE,  data |-> o]
  ELSE [ok |-> FALSE, data |-> EmptyObj]

\* ItemUpdate(**request_body).dict(exclude_unset=True): both fields
\* Optional[str] (null is accepted), only the fields the body sets are
\* kept, other fields of the body are ignored.
ItemUpdate(o) ==
  IF \A f \in DOMAIN o \cap RECOGNIZED : o[f] # JArray
  THEN [ok |-> TRUE,  data |-> [f \in DOMAIN o \cap RECOGNIZED |-> o[f]]]
  ELSE [ok |-> FALSE, data |-> EmptyObj]

\* ----------------------------------------------------------------- store
\* The table's primary key: partition key id, sort key created_at.
KeySchema == {"id", "created_at"}

\* The store rejects a request whose Key does not name exactly the
\* attributes of the key schema (ValidationException).
KeyValid(key) == DOMAIN key = KeySchema

Addressed(tbl, key) ==
  {it \in tbl : \A a \in KeySchema : it[a] = key[a]}

\* table.get_item(Key=key)
GetItem(tbl, key) ==
  IF ~KeyValid(key)
  THEN [error |-> "ValidationException", items |-> {}]
  ELSE [error |-> "none", items |-> Addressed(tbl, key)]

\* A scan of the index that drops the key condition.
QueryAll(tbl, u) == tbl

\* table.query(IndexName='user-index', KeyConditionExpression=
\* Key('user_id').eq(u)): the items whose user_id is u.
Query(tbl, u) == {it \in tbl : it.user_id = u}

\* table.put_item(Item=item): unconditional insert or overwrite by key.
PutItem(tbl, item) ==
  (tbl \ Addressed(tbl, item)) \cup {item}

\* table.update_item(Key=key, UpdateExpression="SET ...",
\* ConditionExpression="user_id = :user_id", ReturnValues="ALL_NEW").
\* The store rejects the request when the Key does not match the key schema
\* or the expression assigns a key attribute.  The condition fails when no
\* item is stored under the key or when the stored user_id differs.
UpdateItem(tbl, key, sets, user) ==
  IF ~KeyValid(key) \/ DOMAIN sets \cap KeySchema # {}
  THEN [error |-> "ValidationException", tbl |-> tbl, attrs |-> {}]
  ELSE LET cur == Addressed(tbl, key) IN
       IF cur = {} \/ \E it \in cur : it.user_id # user
       THEN [error |-> "ConditionalCheckFailedException",
             tbl |-> tbl, attrs |-> {}]
       ELSE LET old == CHOOSE it \in cur : TRUE
                new == [a \in DOMAIN old \cup DOMAIN sets |->
                          IF a \in DOMAIN sets THEN sets[a] ELSE old[a]]
            IN [error |-> "none",
                tbl |-> (tbl \ cur) \cup {new}, attrs |-> {new}]

\* table.delete_item(Key=key, ConditionExpression="user_id = :user_id",
\* ReturnValues="ALL_OLD")
DeleteItem(tbl, key, user) ==
  IF ~KeyValid(key)
  THEN [error |-> "ValidationException", tbl |-> tbl, attrs |-> {}]
  ELSE LET cur == Addressed(tbl, key) IN
       IF cur = {} \/ \E it \in cur : it.user_id # user
       THEN [error |-> "ConditionalCheckFailedException",
             tbl |-> tbl, attrs |-> {}]
       ELSE [error |-> "none", tbl |-> tbl \ cur, attrs |-> cur]

\* ------------------------------------------------------ name resolution
\* The names bound at module level of lambda_function.py.
ModuleGlobals ==
  { "os", "json", "boto3", "logging", "datetime", "Dict", "Any", "Optional",
    "Key", "ClientError", "BaseModel", "validator", "Logger", "Tracer",
    "Metrics", "LambdaContext", "logger", "tracer", "metrics", "dynamodb",
    "table_name", "table", "ItemCreate", "ItemUpdate", "ResponseModel",
    "get_user_id", "build_response", "lambda_handler", "list_items",
    "create_item", "get_item", "update_item", "delete_item" }

\* The names create_item binds: its parameter and its assignments.
CreateItemLocals ==
  { "event", "user_id", "request_body", "item_data", "item_id",
    "timestamp", "item", "e" }

\* Reading a name that is neither assigned in the function nor bound at
\* module level raises NameError.
NameError(n, locals) == n \notin locals /\ n \notin ModuleGlobals

\* ----------------------------------------------------------------- state
\* table: the items stored in the table (backend_stack.py 50-65), reached
\*        through the module-level handle of lambda_function.py 19-21.
\* now:   the reading of datetime.utcnow() (lambda_function.py 120, 191).
\* pend:  the updates prepared by update_item (171-191) and not yet sent.
\* resp:  the last response built by build_response (49-58), with the
\*        request it answers.
VARIABLES table, now, pend, resp

vars == <<table, now, pend, resp>>

\* get_user_id: the sub claim, or ValueError when the path to it is absent.
get_user_id(caller) ==
  IF caller = NoClaims THEN [ok |-> FALSE, sub |-> NoClaims]
                       ELSE [ok |-> TRUE,  sub |-> caller]

\* build_response(status_code, body), recorded with the request it answers.
build_response(op, caller, id, body, status, message, items) ==
  [op |-> op, caller |-> caller, id |-> id, body |-> body,
   statusCode |-> status, message |-> message, items |-> items]

NoResp == build_response("none", NoClaims, NoId, NoBody, 0, "", {})

\* An item as a completed create_item stores it.
Item(id, user, name, description, created, updated) ==
  [id |-> id, user_id |-> user, name |-> name, description |-> description,
   created_at |-> created, updated_at |-> updated]

\* The table is a named resource that outlives the invocations of the
\* function, which only holds a handle to it: an invocation starts against
\* any set of stored items, at most one per id, each with the six attributes
\* of lines 123-129.  (No handler of this file completes a write, see
\* create_item and KeyValid, so the stored items are those already there.)
InitialTables ==
  { {Item(i, own[i], "a", "d", 0, 0) : i \in S} :
      S \in SUBSET ItemIds, own \in [ItemIds -> Users] }

Init ==
  /\ table \in InitialTables
  /\ now = 0
  /\ pend = {}
  /\ resp = NoResp

\* datetime.utcnow() advances.
Tick ==
  /\ now < MaxTime
  /\ now' = now + 1
  /\ UNCHANGED <<table, pend, resp>>

Respond(r) == resp' = r

\* list_items(event)
list_items(caller) ==
  /\ LET uid == get_user_id(caller) IN
     IF ~uid.ok
     THEN Respond(build_response("list_items", caller, NoId, NoBody,
                                    500, "Failed to list items", {}))
     ELSE Respond(build_response("list_items", caller, NoId, NoBody,
                                    200, "", Query(table, uid.sub)))
  /\ UNCHANGED <<table, now, pend>>

\* create_item(event).  Line 119 reads the name context, which is a
\* parameter of lambda_handler only; every failure inside the try block is
\* answered by the except clause of lines 136-138.
create_item(caller, body) ==
  /\ LET uid  == get_user_id(caller)
         data == ItemCreate(body.obj)
         fail == build_response("create_item", caller, NoId, body,
                                500, "Failed to create item", {})
     IN
     IF ~uid.ok \/ ~body.parses \/ ~data.ok
        \/ NameError("context", CreateItemLocals)
     THEN /\ Respond(fail)
          /\ table' = table
     ELSE \E rid \in ItemIds \ {it.id : it \in table} :
            LET item == Item(rid, uid.sub, data.data.name,
                             data.data.description, now, now)
            IN /\ table' = PutItem(table, item)
               /\ Respond(build_response("create_item", caller, NoId,
                                            body, 201, "", {item}))
  /\ UNCHANGED <<now, pend>>

\* Key={'id': item_id}, the key get_item, update_item and delete_item send.
HandlerKey(item_id) == [id |-> item_id]

\* get_item(event)
get_item(caller, id) ==
  /\ LET uid == get_user_id(caller)
         r   == GetItem(table, HandlerKey(id))
         R(status, message, items) ==
           build_response("get_item", caller, id, NoBody,
                          status, message, items)
     IN
     IF ~uid.ok THEN Respond(R(500, "Internal server error", {}))
     ELSE IF r.error # "none"
          THEN Respond(R(500, "Error retrieving item", {}))
     ELSE IF r.items = {}
          THEN Respond(R(404, "Item not found", {}))
     ELSE IF \E it \in r.items : it.user_id # uid.sub
          THEN Respond(R(403, "Forbidden", {}))
     ELSE Respond(R(200, "", r.items))
  /\ UNCHANGED <<table, now, pend>>

\* update_item(event) up to the store call: identity, parsing, validation
\* and the SET expression with the refreshed updated_at.
update_item(caller, id, body) ==
  /\ Cardinality(pend) < MaxInFlight
  /\ LET uid  == get_user_id(caller)
         data == ItemUpdate(body.obj)
         R(status, message) ==
           build_response("update_item", caller, id, body,
                          status, message, {})
     IN
     IF ~uid.ok \/ ~body.parses \/ ~data.ok
     THEN /\ Respond(R(500, "Internal server error"))
          /\ pend' = pend
     ELSE IF DOMAIN data.data = {}
          THEN /\ Respond(R(400, "No valid fields to update"))
               /\ pend' = pend
     ELSE /\ pend' = pend \cup
                 {[caller |-> uid.sub, id |-> id, body |-> body,
                   sets |-> [k \in DOMAIN data.data \cup {"updated_at"} |->
                               IF k = "updated_at" THEN now
                                                   ELSE data.data[k]]]}
          /\ resp' = resp
  /\ UNCHANGED <<table, now>>

\* update_item(event) from the store call on: the conditional write and
\* the mapping of its outcome to a response.
update_item_call(q) ==
  /\ q \in pend
  /\ LET r == UpdateItem(table, HandlerKey(q.id), q.sets, q.caller)
         R(status, message, items) ==
           build_response("update_item", q.caller, q.id, q.body,
                          status, message, items)
     IN
     /\ table' = r.tbl
     /\ IF r.error = "none"
        THEN Respond(R(200, "", r.attrs))
        ELSE IF r.error = "ConditionalCheckFailedException"
             THEN Respond(R(403, "Forbidden", {}))
        ELSE Respond(R(500, "Error updating item", {}))
  /\ pend' = pend \ {q}
  /\ UNCHANGED now

\* delete_item(event)
delete_item(caller, id) ==
  /\ LET uid == get_user_id(caller)
         r   == DeleteItem(table, HandlerKey(id), uid.sub)
         R(status, message) ==
           build_response("delete_item", caller, id, NoBody,
                          status, message, {})
     IN
     IF ~uid.ok
     THEN /\ Respond(R(500, "Internal server error"))
          /\ table' = table
     ELSE /\ table' = r.tbl
          /\ IF r.error = "ConditionalCheckFailedException"
             THEN Respond(R(403, "Forbidden"))
             ELSE IF r.error # "none"
                  THEN Respond(R(500, "Error deleting item"))
             ELSE IF r.attrs = {}
                  THEN Respond(R(404, "Item not found"))
             ELSE Respond(R(200, "Item deleted successfully"))
  /\ UNCHANGED <<now, pend>>

Next ==
  \/ Tick
  \/ \E c \in Callers : list_items(c)
  \/ \E c \in Callers, b \in CreateBodies : create_item(c, b)
  \/ \E c \in Callers, i \in ItemIds : get_item(c, i)
  \/ \E c \in Callers, i \in ItemIds, b \in UpdateBodies :
       update_item(c, i, b)
  \/ \E q \in pend : update_item_call(q)
  \/ \E c \in Callers, i \in ItemIds : delete_item(c, i)

Spec == Init /\ [][Next]_vars

\* ------------------------------------------------------------ properties
Stored(tbl, id) == {it \in tbl : it.id = id}

\* The step in which the prepared update q is sent to the store.
UpdateCallStep(q) == q \in pend /\ pend' = pend \ {q}

\* A step that answers a request of handler op.
Answers(op) == resp' # resp /\ resp'.op = op

ItemAttrs ==
  {"id", "user_id", "name", "description", "created_at", "updated_at"}

CE_C2 ==
  [][\A q \in pend :
       (/\ UpdateCallStep(q)
        /\ \E it \in Stored(table, q.id) : it.user_id # q.caller)
       => /\ resp'.statusCode = 403
          /\ Stored(table', q.id) = Stored(table, q.id)]_vars

\* C3: create_item with an identity u and a body with string name and
\* description answers 201 with an item of owner u, a fresh id, equal
\* created_at and updated_at and the body's name and description, and that
\* item is stored under its id, where a get_item finds it.
CE_C3 ==
  [][(/\ Answers("create_item")
      /\ resp'.caller \in Users
      /\ {"name", "description"} \subseteq DOMAIN resp'.body.obj
      /\ IsStr(resp'.body.obj.name)
      /\ IsStr(resp'.body.obj.description))
     => /\ resp'.statusCode = 201
        /\ \E it \in resp'.items :
             /\ it.user_id = resp'.caller
             /\ Stored(table, it.id) = {}
             /\ it.created_at = it.updated_at
             /\ it.name = resp'.body.obj.name
             /\ it.description = resp'.body.obj.description
             /\ Stored(table', it.id) = {it}]_vars

\* C4: get_item with an identity u answers 200 with the item exactly when an
\* item of that id is stored with user_id u, 404 when none is stored, and
\* 403 without the item when the stored user_id differs.
CE_C4 ==
  [][(Answers("get_item") /\ resp'.caller \in Users) =>
       LET stored == Stored(table, resp'.id) IN
       /\ stored = {} => resp'.statusCode = 404
       /\ (stored # {} /\ \A it \in stored : it.user_id = resp'.caller)
            => (resp'.statusCode = 200 /\ resp'.items = stored)
       /\ (\E it \in stored : it.user_id # resp'.caller)
            => (resp'.statusCode = 403 /\ resp'.items = {})
       /\ resp'.statusCode = 200
            => (stored # {} /\ \A it \in stored : it.user_id = resp'.caller)
    ]_vars

\* C5: every handler answers an envelope without the identity claim with
\* 401 and leaves the store unchanged.
CE_C5 ==
  [][(resp' # resp /\ resp'.op # "none" /\ resp'.caller = NoClaims)
       => (resp'.statusCode = 401 /\ table' = table)]_vars

MissingOrWrongTyped(o) ==
  \E f \in {"name", "description"} : f \notin DOMAIN o \/ ~IsStr(o[f])

NoRecognizedOrWrongTyped(o) ==
  \/ DOMAIN o \cap {"name", "description"} = {}
  \/ \E f \in DOMAIN o \cap {"name", "description"} : o[f] = JArray

\* C6: with an identity, create_item with a body that misses name or
\* description or has a wrong-typed field, and update_item with a body that
\* has no recognized field or a wrong-typed field, answer 400 and leave the
\* store unchanged.
CE_C6 ==
  [][(/\ resp' # resp
      /\ resp'.caller \in Users
      /\ resp'.body.parses
      /\ \/ resp'.op = "create_item" /\ MissingOrWrongTyped(resp'.body.obj)
         \/ resp'.op = "update_item"
              /\ NoRecognizedOrWrongTyped(resp'.body.obj))
       => (resp'.statusCode = 400 /\ table' = table)]_vars

\* C7: delete_item with an identity on an id under which nothing is stored
\* answers 403 or 404, never 200, and leaves the store unchanged.
CE_C7 ==
  [][(/\ Answers("delete_item")
      /\ resp'.caller \in Users
      /\ Stored(table, resp'.id) = {})
       => (resp'.statusCode \in {403, 404} /\ table' = table)]_vars

\* C8: the store call of an update_item by the owner with body {name: x}
\* answers 200 and leaves the item stored, where a get_item finds it, with
\* name x, the description it had and a strictly greater updated_at.
CE_C8 ==
  [][\A q \in pend :
       (/\ UpdateCallStep(q)
        /\ DOMAIN q.sets = {"name", "updated_at"}
        /\ \E it \in Stored(table, q.id) : it.user_id = q.caller)
       => /\ resp'.statusCode = 200
          /\ \A old \in Stored(table, q.id) :
               \E new \in Stored(table', q.id) :
                 /\ new.name = q.sets.name
                 /\ new.description = old.description
                 /\ new.updated_at > old.updated_at]_vars

\* A step changes neither the id nor the user_id of an item that stays
\* stored.
KeepsIdAndOwner ==
  \A it \in table :
    Stored(table', it.id) # {} =>
      \E it2 \in table' : /\ it2.id = it.id
                          /\ it2.created_at = it.created_at
                          /\ it2.user_id = it.user_id

\* No prepared update assigns id or user_id.
NeverSetsIdOrOwner ==
  \A q \in pend : DOMAIN q.sets \cap {"id", "user_id"} = {}

\* C9: no step changes the id or the user_id of a stored item, and no update
\* the function sends to the store assigns id or user_id, whatever fields
\* the request body carries.
Thm_C9 == [][KeepsIdAndOwner /\ NeverSetsIdOrOwner']_vars

\* C9: the owner's update_item whose body carries another id and another
\* user_id has made its store call, and the item is stored under its id with
\* its owner.
Witness_C9 ==
  /\ resp.op = "update_item"
  /\ resp.message = "Error updating item"
  /\ {"id", "user_id"} \subseteq DOMAIN resp.body.obj
  /\ \E it \in Stored(table, resp.id) :
       /\ it.user_id = resp.caller
       /\ resp.body.obj.user_id # it.user_id
       /\ resp.body.obj.id # it.id

\* C10: once a delete_item has answered 200 the item is absent; the store
\* call of an update_item that lands while no item is stored under the id
\* answers 403 and stores nothing under it; no item lacking an attribute is
\* ever stored.
CE_C10 ==
  [][/\ (Answers("delete_item") /\ resp'.statusCode = 200)
          => Stored(table', resp'.id) = {}
     /\ \A q \in pend :
          (UpdateCallStep(q) /\ Stored(table, q.id) = {})
          => /\ resp'.statusCode = 403
             /\ Stored(table', q.id) = {}
     /\ \A it \in table' : DOMAIN it = ItemAttrs]_vars
====
